---- MODULE Spec2Model ----
(***************************************************************************)
(* CryptoPulse.                                                            *)
(*                                                                         *)
(*   src/app.py             get_index_tickers, screen_stocks (Flask)       *)
(*   src/screener/views.py  StockDataView (Django ingestion endpoint)      *)
(*   src/screener/models.py StockData (the stored row)                     *)
(*                                                                         *)
(* Prices are modelled as positive integers and the exponential moving     *)
(* averages as exact rationals (a numerator over a power of span+1), held  *)
(* as arbitrary-precision naturals, so that ties between averages are      *)
(* exact.  The code computes the same recurrence in binary floating point. *)
(***************************************************************************)
EXTENDS Integers, Sequences, FiniteSets, TLC

(***************************************************************************)
(* Arbitrary-precision naturals: little-endian sequences of limbs in       *)
(* 0..Base-1 without a leading (last) zero limb; <<>> is zero.             *)
(***************************************************************************)
Base == 1000 * 1000

RECURSIVE BigOfInt(_)
BigOfInt(n) == IF n = 0 THEN <<>> ELSE <<n % Base>> \o BigOfInt(n \div Base)

RECURSIVE BigMulFrom(_, _, _, _)
BigMulFrom(a, k, j, carry) ==
    IF j > Len(a)
    THEN BigOfInt(carry)
    ELSE LET v == a[j] * k + carry
         IN  <<v % Base>> \o BigMulFrom(a, k, j + 1, v \div Base)

\* a * k for a small natural k
BigMul(a, k) == IF k = 0 THEN <<>> ELSE BigMulFrom(a, k, 1, 0)

RECURSIVE BigAddFrom(_, _, _, _)
BigAddFrom(a, b, j, carry) ==
    IF j > Len(a) /\ j > Len(b)
    THEN BigOfInt(carry)
    ELSE LET x == IF j <= Len(a) THEN a[j] ELSE 0
             y == IF j <= Len(b) THEN b[j] ELSE 0
             v == x + y + carry
         IN  <<v % Base>> \o BigAddFrom(a, b, j + 1, v \div Base)

BigAdd(a, b) == BigAddFrom(a, b, 1, 0)

RECURSIVE BigLtFrom(_, _, _)
BigLtFrom(a, b, j) ==
    IF j = 0 THEN FALSE
    ELSE IF a[j] # b[j] THEN a[j] < b[j]
    ELSE BigLtFrom(a, b, j - 1)

\* a < b
BigLt(a, b) ==
    IF Len(a) # Len(b) THEN Len(a) < Len(b) ELSE BigLtFrom(a, b, Len(a))

\* a * k^n (the test on a has it evaluated before the next factor)
RECURSIVE BigMulPow(_, _, _)
BigMulPow(a, k, n) == IF Len(a) = 0 \/ n = 0 THEN a ELSE BigMulPow(BigMul(a, k), k, n - 1)

(***************************************************************************)
(* The five spans of screen_stocks.                                        *)
(***************************************************************************)
Span20 == 20
Span25 == 25
Span30 == 30
Span35 == 35
Span40 == 40

(***************************************************************************)
(* Series.ewm(span=s, adjust=False).mean(): alpha = 2/(s+1), the first     *)
(* value is the first close, and each later value is                       *)
(*     alpha * close + (1 - alpha) * previous.                             *)
(* EwmIter carries, after bar t-1, the numerator num of the average over   *)
(* the denominator pow = (s+1)^(t-2).  EwmMean is the numerator of the     *)
(* last value, over (s+1)^(Len(closes)-1).  (pow is never 0: the test on   *)
(* the lengths only has num and pow evaluated before the next bar.)        *)
(***************************************************************************)
RECURSIVE EwmIter(_, _, _, _, _)
EwmIter(closes, s, t, num, pow) ==
    IF Len(num) + Len(pow) = 0 \/ t > Len(closes)
    THEN num
    ELSE EwmIter(closes, s, t + 1,
                 BigAdd(BigMul(pow, 2 * closes[t]), BigMul(num, s - 1)),
                 BigMul(pow, s + 1))

\* EwmMean with the first value 0 instead of the first close
EwmMeanZeroSeed(closes, s) == EwmIter(closes, s, 2, BigOfInt(0), BigOfInt(1))

EwmMean(closes, s) == EwmIter(closes, s, 2, BigOfInt(closes[1]), BigOfInt(1))

\* ea/(a+1)^n > eb/(b+1)^n: the comparison of the averages of spans a and b
EmaGt(ea, a, eb, b, n) == BigLt(BigMulPow(eb, a + 1, n), BigMulPow(ea, b + 1, n))

\* c >= ea/(a+1)^n
CloseGe(c, ea, a, n) == ~ BigLt(BigMulPow(BigOfInt(c), a + 1, n), ea)

\* PassesScreen with >= between ema20 and ema25: a tie passes
PassesScreenTies(closes) ==
    LET n     == Len(closes) - 1
        ema20 == EwmMean(closes, Span20)
        ema25 == EwmMean(closes, Span25)
        ema30 == EwmMean(closes, Span30)
        ema35 == EwmMean(closes, Span35)
        ema40 == EwmMean(closes, Span40)
        close == closes[Len(closes)]
    IN  /\ ~ EmaGt(ema25, Span25, ema20, Span20, n)
        /\ ~ EmaGt(ema30, Span30, ema25, Span25, n)
        /\ ~ EmaGt(ema35, Span35, ema30, Span30, n)
        /\ ~ EmaGt(ema40, Span40, ema35, Span35, n)
        /\ CloseGe(close, ema20, Span20, n)

\* PassesScreen with the EMA25 column computed with span=20
PassesScreenCopied(closes) ==
    LET n     == Len(closes) - 1
        ema20 == EwmMean(closes, Span20)
        ema25 == EwmMean(closes, Span20)
        ema30 == EwmMean(closes, Span30)
        ema35 == EwmMean(closes, Span35)
        ema40 == EwmMean(closes, Span40)
        close == closes[Len(closes)]
    IN  /\ EmaGt(ema20, Span20, ema25, Span20, n)
        /\ EmaGt(ema25, Span20, ema30, Span30, n)
        /\ EmaGt(ema30, Span30, ema35, Span35, n)
        /\ EmaGt(ema35, Span35, ema40, Span40, n)
        /\ CloseGe(close, ema20, Span20, n)

\* the condition of the if statement of screen_stocks
PassesScreen(closes) ==
    LET n     == Len(closes) - 1
        ema20 == EwmMean(closes, Span20)
        ema25 == EwmMean(closes, Span25)
        ema30 == EwmMean(closes, Span30)
        ema35 == EwmMean(closes, Span35)
        ema40 == EwmMean(closes, Span40)
        close == closes[Len(closes)]
    IN  /\ EmaGt(ema20, Span20, ema25, Span25, n)
        /\ EmaGt(ema25, Span25, ema30, Span30, n)
        /\ EmaGt(ema30, Span30, ema35, Span35, n)
        /\ EmaGt(ema35, Span35, ema40, Span40, n)
        /\ CloseGe(close, ema20, Span20, n)

(***************************************************************************)
(* Bounds of the model.                                                    *)
(***************************************************************************)
MaxTickers == 3      \* longest ticker list given to screen_stocks
MaxLen == 3          \* longest exhaustively enumerated close series
MaxClose == 3        \* largest close of those series
MaxExtra == 1        \* long series have Span40 .. Span40 + MaxExtra bars

Tickers == {"AAA", "BBB"}

RECURSIVE SeqsUpTo(_, _)
SeqsUpTo(S, n) ==
    IF n = 0 THEN {<<>>}
    ELSE LET R == SeqsUpTo(S, n - 1)
         IN  R \cup {Append(q, e) : q \in {r \in R : Len(r) = n - 1}, e \in S}

(***************************************************************************)
(* What one call of yf.download can do: raise, return a frame without a    *)
(* usable Close column (every later access raises), or return a frame      *)
(* whose Close column is the given series (empty: stock_data.empty).       *)
(***************************************************************************)
Raises == [kind |-> "raise", closes |-> <<>>]
NoColumn == [kind |-> "nocolumn", closes |-> <<>>]
Frame(cs) == [kind |-> "frame", closes |-> cs]

ShortSeries == SeqsUpTo(1..MaxClose, MaxLen)

\* a series of n bars from `start` whose increments alternate between a and b
Alternating(start, a, b, n) ==
    [k \in 1..n |-> start + ((k - 1) \div 2) * (a + b) + ((k - 1) % 2) * a]

Incs == {-1, 0, 1, 2}
LongLens == Span40 .. (Span40 + MaxExtra)
LongStart == 2 * (Span40 + MaxExtra)

LongSeries ==
    {Alternating(LongStart, a, b, n) : a \in Incs, b \in Incs, n \in LongLens}

BatchOutcomes ==
    {Raises, NoColumn, Frame(<<>>), Frame(<<2>>),
     Frame(<<1, 2>>), Frame(<<2, 1>>), Frame(<<2, 2>>)}

(***************************************************************************)
(* State.                                                                  *)
(***************************************************************************)
VARIABLES
    \* screen_stocks (src/app.py)
    tickers,     \* the argument
    yf,          \* yf[k]: what yf.download does for the k-th ticker of the list
    pc,          \* "fetch", "compute", "done" (returned), "raised"
    i,           \* position of the for loop in tickers
    stock_data,  \* the frame being processed
    result,      \* the list being built
    calls,       \* positions yf.download has been called for
    ewm,         \* positions the averages have been computed for
    errors,      \* positions whose ticker the except clause has printed
    \* get_index_tickers (src/app.py)
    pages,       \* what the three pages hold: a symbol list, or Unreachable
    tpc,         \* "sp500", "nasdaq", "djia", "union", "done", "raised"
    sp500,
    nasdaq,
    djia,
    index_tickers,   \* the returned list
    \* StockDataView (src/screener/views.py)
    file,        \* the lines of ./settings/sp500_symbols.txt, stripped
    market,      \* market[s]: the minutes the provider has a bar of s for
    ipc,         \* "idle", "symbols", "rows", "responded", "error", "av", "av_done"
    sym,         \* position of the for loop of fetch_and_insert_data in the file
    data,        \* get_stock_data: the downloaded frame
    row,         \* position of iterrows in data
    db,          \* the stock data table, in insertion order
    db0,         \* the table when the running request or call began
    response,    \* what the view answered: "none", "200", "500"
    runs,        \* requests and calls begun
    hist,        \* how each of them ended
    fetched,     \* symbols downloaded by the running request
    save_failed, \* save() has raised in the running request or call
    av           \* get_stock_data_alphavantage: its locals

varsScreen == <<tickers, yf, pc, i, stock_data, result, calls, ewm, errors>>
varsIndex == <<pages, tpc, sp500, nasdaq, djia, index_tickers>>
varsIngest ==
    <<file, market, ipc, sym, data, row, db, db0, response, runs, hist,
      fetched, save_failed, av>>
vars == <<varsScreen, varsIndex, varsIngest>>

(***************************************************************************)
(* screen_stocks(tickers)                                                  *)
(***************************************************************************)
InitScreen(ts, outs) ==
    /\ tickers = ts
    /\ yf = outs
    /\ pc = "fetch"
    /\ i = 1
    /\ stock_data = Frame(<<>>)
    /\ result = <<>>
    /\ calls = <<>>
    /\ ewm = {}
    /\ errors = <<>>

\* screen_stocks is not running
IdleScreen ==
    /\ tickers = <<>>
    /\ yf = <<>>
    /\ pc = "off"
    /\ i = 1
    /\ stock_data = Frame(<<>>)
    /\ result = <<>>
    /\ calls = <<>>
    /\ ewm = {}
    /\ errors = <<>>

\* HandleError without the except clause: the exception leaves screen_stocks
HandleErrorReraise ==
    /\ pc' = "raised"
    /\ UNCHANGED <<errors, i, stock_data, result, ewm>>

\* except Exception as e: print(...); the loop goes on with the next ticker
HandleError ==
    /\ errors' = Append(errors, i)
    /\ i' = i + 1
    /\ pc' = "fetch"
    /\ UNCHANGED <<stock_data, result, ewm>>

\* stock_data.empty
IsEmpty(frame) == frame.kind = "frame" /\ frame.closes = <<>>

\* SkipEmpty with break for continue
SkipEmptyBreak ==
    /\ i' = Len(tickers) + 1
    /\ pc' = "fetch"
    /\ UNCHANGED <<stock_data, result, ewm, errors>>

\* if stock_data.empty: continue
SkipEmpty ==
    /\ i' = i + 1
    /\ pc' = "fetch"
    /\ UNCHANGED <<stock_data, result, ewm, errors>>

\* stock_data = yf.download(ticker, ...) and the test for an empty frame
Download ==
    /\ pc = "fetch"
    /\ i <= Len(tickers)
    /\ calls' = Append(calls, i)
    /\ IF yf[i].kind = "raise"
       THEN HandleError
       ELSE IF IsEmpty(yf[i])
       THEN SkipEmpty
       ELSE /\ stock_data' = yf[i]
            /\ pc' = "compute"
            /\ UNCHANGED <<i, result, ewm, errors>>
    /\ UNCHANGED <<tickers, yf>>
    /\ UNCHANGED <<varsIndex, varsIngest>>

\* result.append(ticker) when the condition holds
Screened(res, ticker, closes) ==
    IF PassesScreen(closes) THEN Append(res, ticker) ELSE res

\* the five ewm columns, the last row, the condition and the append
Compute ==
    /\ pc = "compute"
    /\ IF stock_data.kind = "nocolumn"
       THEN HandleError
       ELSE /\ ewm' = ewm \cup {i}
            /\ result' = Screened(result, tickers[i], stock_data.closes)
            /\ i' = i + 1
            /\ pc' = "fetch"
            /\ UNCHANGED <<stock_data, errors>>
    /\ UNCHANGED <<tickers, yf, calls>>
    /\ UNCHANGED <<varsIndex, varsIngest>>

\* return result
Return ==
    /\ pc = "fetch"
    /\ i > Len(tickers)
    /\ pc' = "done"
    /\ UNCHANGED <<tickers, yf, i, stock_data, result, calls, ewm, errors>>
    /\ UNCHANGED <<varsIndex, varsIngest>>

(***************************************************************************)
(* get_index_tickers()                                                     *)
(***************************************************************************)
MaxList == 2         \* longest symbol list of one index page

IndexSymbols == {"A", "B", "C"}
Unreachable == <<"unreachable">>
PageContents == SeqsUpTo(IndexSymbols, MaxList) \cup {Unreachable}

InitIndex(ps) ==
    /\ pages = ps
    /\ tpc = "sp500"
    /\ sp500 = <<>>
    /\ nasdaq = <<>>
    /\ djia = <<>>
    /\ index_tickers = <<>>

IdleIndex ==
    /\ pages = <<>>
    /\ tpc = "off"
    /\ sp500 = <<>>
    /\ nasdaq = <<>>
    /\ djia = <<>>
    /\ index_tickers = <<>>

\* sp500 = pd.read_html(...)[0]['Symbol'].tolist()
ReadSp500 ==
    /\ tpc = "sp500"
    /\ IF pages[1] = Unreachable
       THEN tpc' = "raised" /\ UNCHANGED sp500
       ELSE tpc' = "nasdaq" /\ sp500' = pages[1]
    /\ UNCHANGED <<pages, nasdaq, djia, index_tickers>>
    /\ UNCHANGED <<varsScreen, varsIngest>>

\* nasdaq = get_tickers(...): raise_for_status, then the text of each cell
GetNasdaq ==
    /\ tpc = "nasdaq"
    /\ IF pages[2] = Unreachable
       THEN tpc' = "raised" /\ UNCHANGED nasdaq
       ELSE tpc' = "djia" /\ nasdaq' = pages[2]
    /\ UNCHANGED <<pages, sp500, djia, index_tickers>>
    /\ UNCHANGED <<varsScreen, varsIngest>>

\* djia = get_tickers(...)
GetDjia ==
    /\ tpc = "djia"
    /\ IF pages[3] = Unreachable
       THEN tpc' = "raised" /\ UNCHANGED djia
       ELSE tpc' = "union" /\ djia' = pages[3]
    /\ UNCHANGED <<pages, sp500, nasdaq, index_tickers>>
    /\ UNCHANGED <<varsScreen, varsIngest>>

Range(q) == {q[n] : n \in 1..Len(q)}

\* set(l): the elements of l
SetOf(l) == Range(l)

\* list(s): the elements of the set s, each once, in an order the code does
\* not choose
ListsOf(s) ==
    {q \in SeqsUpTo(s, Cardinality(s)) : Len(q) = Cardinality(s) /\ Range(q) = s}

\* ReturnUnion without set(): return sp500 + nasdaq + djia
ReturnConcat ==
    /\ tpc = "union"
    /\ index_tickers' = sp500 \o nasdaq \o djia
    /\ tpc' = "done"
    /\ UNCHANGED <<pages, sp500, nasdaq, djia>>
    /\ UNCHANGED <<varsScreen, varsIngest>>

\* return list(set(sp500 + nasdaq + djia))
ReturnUnion ==
    /\ tpc = "union"
    /\ index_tickers' \in ListsOf(SetOf(sp500 \o nasdaq \o djia))
    /\ tpc' = "done"
    /\ UNCHANGED <<pages, sp500, nasdaq, djia>>
    /\ UNCHANGED <<varsScreen, varsIngest>>

(***************************************************************************)
(* StockDataView: GET fetch_and_insert_data/, and the Alpha Vantage        *)
(* variant of the fetch.                                                   *)
(***************************************************************************)
MaxSymbols == 2      \* most lines of the symbol file
MaxMinutes == 2      \* the provider's window holds minutes 1..MaxMinutes
MaxRuns == 2         \* requests and calls in one behaviour

IngestSymbols == {"AAA", "BBB"}

\* the minutes a symbol has bars for: the first m of the window, ascending
Windows == {[n \in 1..m |-> n] : m \in 0..MaxMinutes}

\* the quote of symbol s at minute m
Quote(s, m) ==
    LET c == 10 * m + (IF s = "AAA" THEN 1 ELSE 2)
    IN  [Open |-> c, High |-> c + 3, Low |-> c - 1, Close |-> c + 2,
         Volume |-> 100 + c]

\* a point of time: a reading in minutes and how the zone is held.
\* "exchange": an index value of the frame; "str": a formatted string;
\* "naive": a datetime without zone; "TIME_ZONE": aware, in Django's zone
Time(m, z) == [minute |-> m, tz |-> z]

\* index.strftime('%Y-%m-%d %H:%M:%S'): the wall-clock reading, without zone
Strftime(t) == Time(t.minute, "str")
\* datetime.strptime(s, '%Y-%m-%d %H:%M:%S')
Strptime(t) == Time(t.minute, "naive")
\* make_aware(d): the same reading, in the current time zone
MakeAware(t) == Time(t.minute, "TIME_ZONE")

\* yf.download(symbol, interval='1m', ...): (index, row) pairs, oldest first
YfFrame(s) ==
    [n \in 1..Len(market[s]) |->
        [index |-> Time(market[s][n], "exchange"),
         values |-> Quote(s, market[s][n])]]

\* the decimal digits of n, as the provider prints a number
RECURSIVE Digits(_)
Digits(n) == IF n < 10 THEN <<n>> ELSE Append(Digits(n \div 10), n % 10)

\* float(str) of a string of decimal digits
RECURSIVE Float(_)
Float(ds) ==
    IF Len(ds) = 0 THEN 0
    ELSE 10 * Float(SubSeq(ds, 1, Len(ds) - 1)) + ds[Len(ds)]

\* the 'Time Series (1min)' section for s: (timestamp, values) items, newest
\* first, the values printed as strings
AvSeries(s) ==
    [n \in 1..Len(market[s]) |->
        LET m == market[s][Len(market[s]) + 1 - n]
            q == Quote(s, m)
        IN  [timestamp |-> Time(m, "str"),
             values |-> [open |-> Digits(q.Open), high |-> Digits(q.High),
                         low |-> Digits(q.Low), close |-> Digits(q.Close),
                         volume |-> Digits(q.Volume)]]]

\* response.json(): with the data section and a time zone (maybe ''), or
\* without the data section (an error note)
AvResponses(s) ==
    {[section |-> TRUE, zone |-> z, series |-> AvSeries(s)] :
        z \in {"US/Eastern", ""}}
    \cup {[section |-> FALSE, zone |-> "", series |-> <<>>]}

NoAv == [symbol |-> "", data |-> <<>>, items |-> <<>>, pos |-> 1,
         timezone |-> "", ret |-> "none"]

InitIngest(f, mk) ==
    /\ file = f
    /\ market = mk
    /\ ipc = "idle"
    /\ sym = 1
    /\ data = <<>>
    /\ row = 1
    /\ db = <<>>
    /\ db0 = <<>>
    /\ response = "none"
    /\ runs = 0
    /\ hist = <<>>
    /\ fetched = <<>>
    /\ save_failed = FALSE
    /\ av = NoAv

IdleIngest ==
    /\ file = <<>>
    /\ market = <<>>
    /\ ipc = "off"
    /\ sym = 1
    /\ data = <<>>
    /\ row = 1
    /\ db = <<>>
    /\ db0 = <<>>
    /\ response = "none"
    /\ runs = 0
    /\ hist = <<>>
    /\ fetched = <<>>
    /\ save_failed = FALSE
    /\ av = NoAv

\* no request or call is being served
Quiet == ipc \in {"idle", "responded", "error", "av_done"}

\* get(): the request arrives and fetch_and_insert_data reads the file
Get ==
    /\ Quiet
    /\ runs < MaxRuns
    /\ runs' = runs + 1
    /\ ipc' = "symbols"
    /\ sym' = 1
    /\ response' = "none"
    /\ fetched' = <<>>
    /\ save_failed' = FALSE
    /\ db0' = db
    /\ UNCHANGED <<file, market, data, row, db, hist, av>>
    /\ UNCHANGED <<varsScreen, varsIndex>>

\* an exception leaves the view method; if it is get(), Django answers with
\* a server error
Abort(how) ==
    /\ ipc' = "error"
    /\ response' = IF how \in {"get_fetch_error", "get_save_error"}
                   THEN "500" ELSE response
    /\ hist' = Append(hist, how)

\* data = yf.download(symbol, ...) raises inside get_stock_data
DownloadRaises ==
    /\ Abort("get_fetch_error")
    /\ UNCHANGED <<sym, data, row>>

\* for symbol in sp500_symbols: stock_data = self.get_stock_data(symbol)
FetchSymbol ==
    /\ ipc = "symbols"
    /\ sym <= Len(file)
    /\ fetched' = Append(fetched, file[sym])
    /\ \/ /\ data' = YfFrame(file[sym])
          /\ row' = 1
          /\ ipc' = "rows"
          /\ UNCHANGED <<sym, response, hist>>
       \/ DownloadRaises
    /\ UNCHANGED <<file, market, db, db0, runs, save_failed, av>>
    /\ UNCHANGED <<varsScreen, varsIndex>>

\* the record get_stock_data builds from one (index, row) of the frame
YfRecord(symbol, item) ==
    [symbol |-> symbol,
     price_open |-> item.values.Open,
     price_high |-> item.values.High,
     price_low |-> item.values.Low,
     price_close |-> item.values.Close,
     volume |-> item.values.Volume,
     timestamp |-> MakeAware(Strptime(Strftime(item.index))),
     timezone |-> "UTC"]

\* Saved as an upsert on (symbol, timestamp)
SavedUpsert(table, record) ==
    IF \E n \in 1..Len(table) :
          table[n].symbol = record.symbol /\ table[n].timestamp = record.timestamp
    THEN [n \in 1..Len(table) |->
            IF table[n].symbol = record.symbol
               /\ table[n].timestamp = record.timestamp
            THEN record ELSE table[n]]
    ELSE Append(table, record)

\* insert_data: StockData(**data).save() appends one row
Saved(table, record) == Append(table, record)

\* SaveRaises with the exception swallowed around insert_data
SaveRaisesSwallowed(how) ==
    /\ save_failed' = TRUE
    /\ UNCHANGED <<ipc, response, hist, db>>

\* save() raises: insert_data and its callers handle nothing
SaveRaises(how) ==
    /\ save_failed' = TRUE
    /\ Abort(how)
    /\ UNCHANGED db

\* one turn of the iterrows loop: the record and insert_data
InsertRow ==
    /\ ipc = "rows"
    /\ row <= Len(data)
    /\ \/ /\ db' = Saved(db, YfRecord(file[sym], data[row]))
          /\ row' = row + 1
          /\ UNCHANGED <<ipc, response, hist, save_failed>>
       \/ /\ SaveRaises("get_save_error")
          /\ UNCHANGED row
    /\ UNCHANGED <<file, market, sym, data, db0, runs, fetched, av>>
    /\ UNCHANGED <<varsScreen, varsIndex>>

\* return True; if stock_data: print(...); the next symbol
NextSymbol ==
    /\ ipc = "rows"
    /\ row > Len(data)
    /\ sym' = sym + 1
    /\ ipc' = "symbols"
    /\ UNCHANGED <<file, market, data, row, db, db0, response, runs, hist,
                   fetched, save_failed, av>>
    /\ UNCHANGED <<varsScreen, varsIndex>>

\* return HttpResponse("Data fetched and inserted successfully.")
Respond ==
    /\ ipc = "symbols"
    /\ sym > Len(file)
    /\ ipc' = "responded"
    /\ response' = "200"
    /\ hist' = Append(hist, "get_ok")
    /\ UNCHANGED <<file, market, sym, data, row, db, db0, runs, fetched,
                   save_failed, av>>
    /\ UNCHANGED <<varsScreen, varsIndex>>

\* get_stock_data_alphavantage(symbol), up to the for statement: `data` is
\* the response, and the for statement takes the items of its data section
AvCall ==
    /\ Quiet
    /\ runs < MaxRuns
    /\ runs' = runs + 1
    /\ save_failed' = FALSE
    /\ db0' = db
    /\ response' = "none"
    /\ \E s \in IngestSymbols : \E r \in AvResponses(s) :
         IF r.section
         THEN /\ av' = [symbol |-> s, data |-> r, items |-> r.series, pos |-> 1,
                        timezone |-> IF r.zone = "" THEN "US/Eastern" ELSE r.zone,
                        ret |-> "none"]
              /\ ipc' = "av"
              /\ UNCHANGED hist
         ELSE /\ av' = [NoAv EXCEPT !.symbol = s, !.data = r, !.ret = "None"]
              /\ ipc' = "av_done"
              /\ hist' = Append(hist, "av_none")
    /\ UNCHANGED <<file, market, sym, data, row, db, fetched>>
    /\ UNCHANGED <<varsScreen, varsIndex>>

\* AvItems read again from `data` at each turn, after the loop has rebound it
AvItemsRebound == IF "series" \in DOMAIN av.data THEN av.data.series ELSE <<>>

\* the items the for statement of get_stock_data_alphavantage goes through
AvItems == av.items

\* the record the loop binds to `data`
AvRecord(symbol, item, timezone) ==
    [symbol |-> symbol,
     price_open |-> Float(item.values.open),
     price_high |-> Float(item.values.high),
     price_low |-> Float(item.values.low),
     price_close |-> Float(item.values.close),
     volume |-> Float(item.values.volume),
     timestamp |-> item.timestamp,
     timezone |-> timezone]

\* one turn of the loop: data = {...}; self.insert_data(data)
AvInsert ==
    /\ ipc = "av"
    /\ av.pos <= Len(AvItems)
    /\ LET rec == AvRecord(av.symbol, AvItems[av.pos], av.timezone)
       IN  \/ /\ db' = Saved(db, rec)
              /\ av' = [av EXCEPT !.data = rec, !.pos = @ + 1]
              /\ UNCHANGED <<ipc, response, hist, save_failed>>
           \/ /\ SaveRaises("av_save_error")
              /\ av' = [av EXCEPT !.data = rec]
    /\ UNCHANGED <<file, market, sym, data, row, db0, runs, fetched>>
    /\ UNCHANGED <<varsScreen, varsIndex>>

\* return data
AvReturn ==
    /\ ipc = "av"
    /\ av.pos > Len(AvItems)
    /\ av' = [av EXCEPT !.ret = "data"]
    /\ ipc' = "av_done"
    /\ hist' = Append(hist, "av_ok")
    /\ UNCHANGED <<file, market, sym, data, row, db, db0, response, runs,
                   fetched, save_failed>>
    /\ UNCHANGED <<varsScreen, varsIndex>>

(***************************************************************************)
(* Specifications.                                                         *)
(***************************************************************************)
\* screen_stocks on a single ticker with any series, or on a batch with
\* representative outcomes
Init ==
    /\ \/ \E t \in Tickers, cs \in ShortSeries \cup LongSeries :
              InitScreen(<<t>>, <<Frame(cs)>>)
       \/ \E ts \in SeqsUpTo(Tickers, MaxTickers) :
              \E outs \in [1..Len(ts) -> BatchOutcomes] : InitScreen(ts, outs)
    /\ IdleIndex
    /\ IdleIngest

Next == Download \/ Compute \/ Return

Spec == Init /\ [][Next]_vars

InitIndexSpec ==
    /\ \E ps \in [1..3 -> PageContents] : InitIndex(ps)
    /\ IdleScreen
    /\ IdleIngest

NextIndex == ReadSp500 \/ GetNasdaq \/ GetDjia \/ ReturnUnion

SpecIndex == InitIndexSpec /\ [][NextIndex]_vars

InitIngestSpec ==
    /\ \E f \in SeqsUpTo(IngestSymbols, MaxSymbols) :
           \E mk \in [IngestSymbols -> Windows] : InitIngest(f, mk)
    /\ IdleScreen
    /\ IdleIndex

NextIngest ==
    \/ Get \/ FetchSymbol \/ InsertRow \/ NextSymbol \/ Respond
    \/ AvCall \/ AvInsert \/ AvReturn

SpecIngest == InitIngestSpec /\ [][NextIngest]_vars

(***************************************************************************)
(* The pass rule as the specification states it: EMA_0 = close_0 and       *)
(* EMA_t = a * close_t + (1 - a) * EMA_(t-1) with a = 2 / (span + 1).      *)
(* Ema(closes, span, t) is the pair <<p, q>> with EMA at bar t = p / q and *)
(* q = (span + 1)^(t - 1).                                                 *)
(***************************************************************************)
EmaStep(prev, close, span) ==
    <<BigAdd(BigMul(prev[2], 2 * close), BigMul(prev[1], span - 1)),
      BigMul(prev[2], span + 1)>>

\* EmaFrom(closes, span, t, cur, last): EMA at bar `last`, given cur = EMA at
\* bar t (the test on cur has it evaluated before the next bar is taken)
RECURSIVE EmaFrom(_, _, _, _, _)
EmaFrom(closes, span, t, cur, last) ==
    IF cur[2] = <<>> \/ t >= last
    THEN cur
    ELSE EmaFrom(closes, span, t + 1, EmaStep(cur, closes[t + 1], span), last)

Ema(closes, span, t) ==
    EmaFrom(closes, span, 1, <<BigOfInt(closes[1]), BigOfInt(1)>>, t)

\* p / (a+1)^n > r / (b+1)^n
Above(p, a, r, b, n) == BigLt(BigMulPow(r, a + 1, n), BigMulPow(p, b + 1, n))

BullishStack(closes) ==
    LET last == Len(closes)
        n == last - 1
        e20 == Ema(closes, 20, last)[1]
        e25 == Ema(closes, 25, last)[1]
        e30 == Ema(closes, 30, last)[1]
        e35 == Ema(closes, 35, last)[1]
        e40 == Ema(closes, 40, last)[1]
    IN  /\ Above(e20, 20, e25, 25, n)
        /\ Above(e25, 25, e30, 30, n)
        /\ Above(e30, 30, e35, 35, n)
        /\ Above(e35, 35, e40, 40, n)
        /\ ~ Above(e20, 20, BigOfInt(closes[last]), 0, n)

\* the fetch for position k returned a non-empty bar sequence without error
FetchedBars(k) == yf[k].kind = "frame" /\ yf[k].closes # <<>>

\* the tickers at the positions in 1..k that satisfy q, in list order
RECURSIVE Selected(_, _)
Selected(q, k) ==
    IF k = 0 THEN <<>>
    ELSE IF q[k] THEN Append(Selected(q, k - 1), tickers[k])
    ELSE Selected(q, k - 1)

\* C1: the list screen_stocks returns holds exactly the tickers whose fetch
\* returned a non-empty bar sequence without error and whose last bar meets
\* the strict chain ema20 > ema25 > ema30 > ema35 > ema40 with
\* close >= ema20: position by position, in list order, and so a ticker is
\* in the result iff it is at such a position.
C1_ResultIsExactlyThePassing ==
    pc = "done" =>
        LET q == [k \in 1..Len(tickers) |->
                    FetchedBars(k) /\ BullishStack(yf[k].closes)]
        IN  /\ result = Selected(q, Len(tickers))
            /\ \A t \in Tickers :
                 t \in Range(result) <=>
                     \E k \in 1..Len(tickers) : tickers[k] = t /\ q[k]

\* a returned batch where a tie (flat series) failed and a rising series passed
C1_Witness ==
    /\ pc = "done"
    /\ Len(tickers) = 2
    /\ yf[1] = Frame(<<2, 2>>)
    /\ yf[2] = Frame(<<1, 2>>)
    /\ result = <<tickers[2]>>

\* processing position k raises
Failing(k) == yf[k].kind \in {"raise", "nocolumn"}

RECURSIVE Positions(_, _)
Positions(q, k) ==
    IF k = 0 THEN <<>>
    ELSE IF q[k] THEN Append(Positions(q, k - 1), k)
    ELSE Positions(q, k - 1)

\* C2: an error while fetching or computing for one ticker never leaves
\* screen_stocks; when it returns, every ticker has been fetched, in order,
\* every ticker whose fetch gave bars has been evaluated, the failing
\* positions (and only they) were logged, and the result is exactly the
\* passing tickers among the others.
C2_ErrorsDoNotAbortTheBatch ==
    /\ pc # "raised"
    /\ pc = "done" =>
        LET n == Len(tickers)
            q == [k \in 1..n |-> FetchedBars(k) /\ BullishStack(yf[k].closes)]
        IN  /\ calls = [k \in 1..n |-> k]
            /\ ewm = {k \in 1..n : FetchedBars(k)}
            /\ errors = Positions([k \in 1..n |-> Failing(k)], n)
            /\ result = Selected(q, n)
            /\ \A k \in 1..n : Failing(k) => ~ q[k]

\* a returned batch whose first fetch raised and whose second ticker passed
C2_Witness ==
    /\ pc = "done"
    /\ Len(tickers) = 2
    /\ yf[1] = Raises
    /\ yf[2] = Frame(<<1, 2>>)
    /\ errors = <<1>>
    /\ result = <<tickers[2]>>

\* the list and the outcomes without the positions whose fetch was empty
RECURSIVE SelectedAmong(_, _)
SelectedAmong(keep, k) ==
    IF k = 0 THEN <<>>
    ELSE IF keep[k] /\ FetchedBars(k) /\ BullishStack(yf[k].closes)
         THEN Append(SelectedAmong(keep, k - 1), tickers[k])
    ELSE SelectedAmong(keep, k - 1)

\* C4: a ticker whose fetch returns an empty bar sequence is left out of the
\* result, raises nothing and is not logged, has no EMA computed, and does
\* not stop the loop: every later ticker is fetched and the result is the
\* one of the list without the empty tickers.
C4_EmptyFetchIsSkipped ==
    /\ pc # "raised"
    /\ pc = "done" =>
        LET n == Len(tickers)
            empty == [k \in 1..n |-> IsEmpty(yf[k])]
        IN  /\ \A k \in 1..n :
                 empty[k] =>
                    /\ k \notin ewm
                    /\ k \notin Range(errors)
                    /\ \A m \in k..n : m \in Range(calls)
            /\ (\E k \in 1..n : empty[k]) =>
                 result = SelectedAmong([k \in 1..n |-> ~ empty[k]], n)

\* a returned batch whose first fetch was empty and whose second ticker passed
C4_Witness ==
    /\ pc = "done"
    /\ Len(tickers) = 2
    /\ IsEmpty(yf[1])
    /\ yf[2] = Frame(<<1, 2>>)
    /\ calls = <<1, 2>>
    /\ result = <<tickers[2]>>

StrictlyIncreasing(closes) ==
    \A n \in 1..(Len(closes) - 1) : closes[n] < closes[n + 1]

\* C8: for a strictly increasing close series of at least 40 bars the five
\* averages at the last bar satisfy ema20 > ema25 > ema30 > ema35 > ema40
\* and close >= ema20, and screen_stocks includes the ticker.
C8_RisingSeriesPasses ==
    pc = "done" =>
        \A k \in 1..Len(tickers) :
            ( /\ FetchedBars(k)
              /\ Len(yf[k].closes) >= Span40
              /\ StrictlyIncreasing(yf[k].closes) )
            => /\ BullishStack(yf[k].closes)
               /\ tickers[k] \in Range(result)

\* a returned call on a strictly rising series of at least 40 bars
C8_Witness ==
    /\ pc = "done"
    /\ Len(tickers) = 1
    /\ FetchedBars(1)
    /\ Len(yf[1].closes) >= Span40
    /\ StrictlyIncreasing(yf[1].closes)
    /\ result = tickers

Flat(closes) == \A n \in 1..Len(closes) : closes[n] = closes[1]

Spans == {Span20, Span25, Span30, Span35, Span40}

\* C9: for a flat close series (one bar or more) each of the five averages
\* equals the constant at every bar, the condition is false, and the ticker
\* is not added for that series.
C9_FlatSeriesFails ==
    pc = "done" =>
        \A k \in 1..Len(tickers) :
            (FetchedBars(k) /\ Flat(yf[k].closes)) =>
                LET closes == yf[k].closes
                IN  /\ \A t \in 1..Len(closes) : \A s \in Spans :
                         EwmMean(SubSeq(closes, 1, t), s)
                             = BigMulPow(BigOfInt(closes[1]), s + 1, t - 1)
                    /\ ~ PassesScreen(closes)
                    /\ (\A m \in 1..Len(tickers) : tickers[m] = tickers[k] => m = k)
                           => tickers[k] \notin Range(result)

\* a returned call on a flat series of at least 40 bars
C9_Witness ==
    /\ pc = "done"
    /\ Len(tickers) = 1
    /\ FetchedBars(1)
    /\ Len(yf[1].closes) >= Span40
    /\ Flat(yf[1].closes)
    /\ result = <<>>

(***************************************************************************)
(* get_index_tickers                                                       *)
(***************************************************************************)
Occurrences(x, l) == Cardinality({n \in 1..Len(l) : l[n] = x})

\* C7: get_index_tickers returns the union of the three lists without
\* duplicates: a symbol of at least one list occurs exactly once in the
\* result, a symbol of no list does not occur.
C7_UnionWithoutDuplicates ==
    tpc = "done" =>
        \A x \in IndexSymbols :
            Occurrences(x, index_tickers) =
                IF x \in Range(pages[1]) \cup Range(pages[2]) \cup Range(pages[3])
                THEN 1 ELSE 0

\* a symbol in all three lists, twice in one of them, and returned once
C7_Witness ==
    /\ tpc = "done"
    /\ pages[1] = <<"A", "A">>
    /\ pages[2] = <<"A", "B">>
    /\ pages[3] = <<"A">>
    /\ Occurrences("A", index_tickers) = 1
    /\ Len(index_tickers) = 2

(***************************************************************************)
(* StockDataView                                                           *)
(***************************************************************************)
Last(q) == q[Len(q)]

\* the stored row r carries symbol s and the provider's entry of s at minute
\* m: its timestamp (as a wall-clock reading) and its OHLCV values
Carries(r, s, m) ==
    /\ r.symbol = s
    /\ r.timestamp.minute = m
    /\ r.price_open = Quote(s, m).Open
    /\ r.price_high = Quote(s, m).High
    /\ r.price_low = Quote(s, m).Low
    /\ r.price_close = Quote(s, m).Close
    /\ r.volume = Quote(s, m).Volume

\* the entries of symbol s, as <<symbol, minute>>, oldest first
Entries(s) == [e \in 1..Len(market[s]) |-> <<s, market[s][e]>>]

\* the entries of the first p lines of the symbol file, in fetch order
RECURSIVE EntriesUpTo(_)
EntriesUpTo(p) ==
    IF p = 0 THEN <<>> ELSE EntriesUpTo(p - 1) \o Entries(file[p])

\* the table is db0 followed by one row per entry of `want`, in order
Appended(want) ==
    /\ Len(db) = Len(db0) + Len(want)
    /\ SubSeq(db, 1, Len(db0)) = db0
    /\ \A e \in 1..Len(want) : Carries(db[Len(db0) + e], want[e][1], want[e][2])

\* the last n rows of the table have pairwise distinct timestamps
LastDistinct(n) ==
    \A a, b \in (Len(db) - n + 1)..Len(db) :
        a # b => db[a].timestamp # db[b].timestamp

\* C3: when the fetch for one symbol of the file raises, the symbols after
\* it are still fetched (and their bars stored): a request that ended on a
\* failed fetch has fetched every line of the file.
C3_FetchFailureDoesNotAbort ==
    (ipc = "error" /\ Last(hist) = "get_fetch_error") => fetched = file

\* C5: one well-formed response for a symbol with n entries (of distinct
\* timestamps) makes insert_data store exactly n rows, one per entry and in
\* the order of the response, each with the symbol and the entry's timestamp
\* and OHLCV values, so with pairwise distinct timestamps: when
\* get_stock_data returns (yfinance) and when get_stock_data_alphavantage
\* returns its data (Alpha Vantage, newest entry first).
C5_OneRowPerEntry ==
    /\ (ipc = "rows" /\ row > Len(data)) =>
          /\ Appended(EntriesUpTo(sym))
          /\ LastDistinct(Len(market[file[sym]]))
    /\ (ipc = "av_done" /\ av.ret = "data") =>
          LET n == Len(market[av.symbol])
          IN  /\ Appended([e \in 1..n |-> Entries(av.symbol)[n + 1 - e]])
              /\ LastDistinct(n)

\* a request that stored the two bars of its only symbol, then a call of the
\* Alpha Vantage variant that stored the same two entries
C5_Witness ==
    /\ hist = <<"get_ok", "av_ok">>
    /\ file = <<"AAA">>
    /\ av.symbol = "AAA"
    /\ Len(market["AAA"]) = 2
    /\ Len(db) = 4

\* C6: when save() raises in the GET path, the request ends there with a
\* server error instead of the confirmation: nothing is fetched or stored
\* after it, and the rows saved before it are still in the table.
C6_SaveFailureAborts ==
    save_failed =>
        /\ ipc = "error"
        /\ Last(hist) \in {"get_save_error", "av_save_error"}
        /\ Last(hist) = "get_save_error" =>
              /\ response = "500"
              /\ fetched = SubSeq(file, 1, sym)
              /\ Appended(EntriesUpTo(sym - 1)
                             \o SubSeq(Entries(file[sym]), 1, row - 1))

\* save() raised on the second bar of the first of two symbols: one row is
\* stored, the second symbol was never fetched
C6_Witness ==
    /\ save_failed
    /\ Last(hist) = "get_save_error"
    /\ Len(file) = 2
    /\ sym = 1
    /\ row = 2
    /\ Len(db) = Len(db0) + 1
    /\ fetched = <<file[1]>>

\* rows of the table with symbol s and reading m
Stored(s, m) ==
    Cardinality({n \in 1..Len(db) : db[n].symbol = s /\ db[n].timestamp.minute = m})

\* lines of the symbol file that name s
Lines(s) == Cardinality({p \in 1..Len(file) : file[p] = s})

\* two requests have completed and nothing else has run
TwoRuns == runs = 2 /\ hist = <<"get_ok", "get_ok">>

\* C10, as stated: after two requests over the same provider data every
\* (symbol, timestamp) pair is stored exactly twice.
C10_EveryPairExactlyTwice ==
    TwoRuns =>
        \A s \in Range(file) : \A e \in 1..Len(market[s]) :
            Stored(s, market[s][e]) = 2

\* C10, amended: the table only grows at its end, no stored row ever changes
\* or goes away, and after two completed requests over the same provider
\* data every (symbol, timestamp) pair is stored twice for each line of the
\* symbol file that names the symbol.
C10_AppendOnlyNoUpsert ==
    /\ [][Len(db') >= Len(db) /\ SubSeq(db', 1, Len(db)) = db]_vars
    /\ [](TwoRuns =>
            \A s \in Range(file) : \A e \in 1..Len(market[s]) :
                Stored(s, market[s][e]) = 2 * Lines(s))

\* two completed requests for one symbol with two bars: four rows
C10_Witness ==
    /\ TwoRuns
    /\ file = <<"AAA">>
    /\ Len(market["AAA"]) = 2
    /\ Len(db) = 4
    /\ Stored("AAA", 1) = 2
====
